---- MODULE Spec2Model ----
(***************************************************************************)
(* Remote retrieval session controller of the DINOv3 image retrieval app.  *)
(* The React component DinoRetrievalApp keeps the session state in hooks;  *)
(* its async handlers (loadResources, refreshExamples, handleSearch) are   *)
(* modelled as tasks that advance at every await.  The backend is the      *)
(* environment: every awaited call settles with success or with failure.   *)
(***************************************************************************)
EXTENDS Integers, Sequences, FiniteSets, TLC

\* ---------------------------------------------------------------- bounds
\* Number of async operations (load cycles, searches, refreshes) started in
\* one behaviour: of Spec and LiveSpec, and of WideSpec.
MaxTasks == 2
MaxWideTasks == 3

\* ------------------------------------------------------------- constants
Datasets == {"Cars196", "CUB", "StanfordOnlineProducts"}
Sizes == {"s", "b"}

StInitializing == <<"Initializing...">>
StDownloading == <<"Downloading Weights & Mapping...">>
StAnalyzing == <<"Analyzing Visual Semantics...">>
StSyncFailed == <<"Sync Failed">>
StSearchFailed == <<"Search Failed">>

\* useState<ParsedStats | null>(null), useState<string | null>(null)
NoStats == [absent |-> TRUE]
NoQuery == <<>>
NoRaw == <<>>
NoCfg == [absent |-> TRUE]
NoInput == [file |-> "", url |-> <<>>]

\* ------------------------------------------------------------- decoders
\* The raw metrics text is a sequence of labelled lines <<label, n>>: the
\* line reads "label: n%" for the six percentages and "label: n" for the two
\* counts, n a whole number.  data[1] may also be missing.
Fields == <<"Precision@1", "MAP@R", "R@1", "R@5", "R@10", "R@100",
            "Total embeddings", "Embedding dimension">>
FieldIds == 1..Len(Fields)
Percentages == 1..6

FieldId(label) == CHOOSE i \in FieldIds : Fields[i] = label

LabelChars ==
  << <<"P", "r", "e", "c", "i", "s", "i", "o", "n", "@", "1">>,
     <<"M", "A", "P", "@", "R">>,
     <<"R", "@", "1">>,
     <<"R", "@", "5">>,
     <<"R", "@", "1", "0">>,
     <<"R", "@", "1", "0", "0">>,
     <<"T", "o", "t", "a", "l", " ", "e", "m", "b", "e", "d", "d", "i", "n", "g", "s">>,
     <<"E", "m", "b", "e", "d", "d", "i", "n", "g", " ", "d", "i", "m", "e", "n", "s", "i", "o", "n">> >>

Text(lines) == [defined |-> TRUE, lines |-> lines]
Undefined == [defined |-> FALSE, lines |-> <<>>]

\* The head of the line the backend writes for field g, up to its number.
LineHead(g) == LabelChars[g] \o <<":", " ">>

\* Each regular expression without the ": " that ends its literal part.
LiteralNoColon(f) == LabelChars[f]

\* The literal part of the regular expression of field f.
Literal(f) == LabelChars[f] \o <<":", " ">>

Occurs(p, s) ==
  \E i \in 1..(Len(s) - Len(p) + 1) : SubSeq(s, i, i + Len(p) - 1) = p

\* Whether the regular expression of field f matches the line of field g: its
\* literal occurs in the head of the line (then it ends where the number
\* starts, no label holding ": "), the number follows, and then the "%" the
\* expressions of the percentages ask for.
Hits ==
  [f \in FieldIds |->
    [g \in FieldIds |-> /\ Occurs(Literal(f), LineHead(g))
                        /\ (f \in Percentages => g \in Percentages)]]

RECURSIVE MatchFrom(_, _, _)
\* raw.match(regex): the capture of the first line the expression of the
\* label matches, -1 when no line matches.
MatchFrom(raw, label, i) ==
  IF i > Len(raw.lines) THEN -1
  ELSE IF Hits[FieldId(label)][FieldId(raw.lines[i][1])] THEN raw.lines[i][2]
  ELSE MatchFrom(raw, label, i + 1)

Match(raw, label) == MatchFrom(raw, label, 1)

\* getNum: match ? parseFloat(match[1]) : 0
getNum(raw, label) == IF Match(raw, label) = -1 THEN 0 ELSE Match(raw, label)

\* parseStats that gives up when the text holds no labelled line.
parseStatsNullOnEmpty(raw) ==
  IF ~raw.defined \/ raw.lines = <<>> THEN NoStats
  ELSE [precision |-> getNum(raw, "Precision@1"),
        mapR |-> getNum(raw, "MAP@R"),
        r1 |-> getNum(raw, "R@1"),
        r5 |-> getNum(raw, "R@5"),
        r10 |-> getNum(raw, "R@10"),
        r100 |-> getNum(raw, "R@100"),
        embeddings |-> IF Match(raw, "Total embeddings") = -1
                       THEN <<"digits", 0>>
                       ELSE <<"digits", Match(raw, "Total embeddings")>>,
        dim |-> IF Match(raw, "Embedding dimension") = -1
                THEN 0 ELSE Match(raw, "Embedding dimension")]

\* raw.match on a missing text throws, and the catch returns null.
parseStats(raw) ==
  IF ~raw.defined THEN NoStats
  ELSE [precision |-> getNum(raw, "Precision@1"),
        mapR |-> getNum(raw, "MAP@R"),
        r1 |-> getNum(raw, "R@1"),
        r5 |-> getNum(raw, "R@5"),
        r10 |-> getNum(raw, "R@10"),
        r100 |-> getNum(raw, "R@100"),
        embeddings |-> IF Match(raw, "Total embeddings") = -1
                       THEN <<"digits", 0>>
                       ELSE <<"digits", Match(raw, "Total embeddings")>>,
        dim |-> IF Match(raw, "Embedding dimension") = -1
                THEN 0 ELSE Match(raw, "Embedding dimension")]

\* item.image?.url || item.image?.path || item.url || item.path || ""
getImageUrl(item) ==
  IF item.imageUrl # <<>> THEN item.imageUrl
  ELSE IF item.imagePath # <<>> THEN item.imagePath
  ELSE IF item.url # <<>> THEN item.url
  ELSE item.path

\* A caption is a text of tokens: the three prefixes, the line break and
\* words holding none of them; caption?: string may be missing.
NL == "\n"
Caption(toks) == [defined |-> TRUE, toks |-> toks]
NoCaption == [defined |-> FALSE, toks |-> <<>>]

RECURSIVE Split(_)
\* caption.split("\n")
Split(toks) ==
  IF \A k \in DOMAIN toks : toks[k] # NL THEN <<toks>>
  ELSE LET k == CHOOSE k \in DOMAIN toks :
                  toks[k] = NL /\ \A j \in 1..(k - 1) : toks[j] # NL
       IN <<SubSeq(toks, 1, k - 1)>> \o Split(SubSeq(toks, k + 1, Len(toks)))

\* text.replace(tok, ""): the first occurrence of tok goes, wherever it is.
RemoveFirst(text, tok) ==
  IF \A k \in DOMAIN text : text[k] # tok THEN text
  ELSE LET k == CHOOSE k \in DOMAIN text :
                  text[k] = tok /\ \A j \in 1..(k - 1) : text[j] # tok
       IN SubSeq(text, 1, k - 1) \o SubSeq(text, k + 1, Len(text))

\* text || fallback
OrElse(text, fallback) == IF text = <<>> THEN <<fallback>> ELSE text

parseCaption(caption) ==
  IF ~caption.defined \/ caption.toks = <<>>
    THEN [className |-> <<"Unknown">>, sim |-> <<"0.000">>]
  ELSE LET parts == Split(caption.toks) IN
    [className |-> OrElse(RemoveFirst(RemoveFirst(parts[1], "Class: "), "Label: "),
                          "Unknown"),
     sim |-> IF Len(parts) < 2 THEN <<"0.000">>
             ELSE OrElse(RemoveFirst(parts[2], "Sim: "), "0.000")]

\* ----------------------------------------------------- backend responses
\* What the backend answers to the request of task t.  Every request gets
\* an answer of its own, so that a stale answer is told from a fresh one.
FullRaw(t) == Text([i \in FieldIds |-> <<Fields[i], t>>])
EmptyRaw == Text(<<>>)
RawPayloads(t) == {FullRaw(t), EmptyRaw, Undefined}
LoadStatus(t) == <<"loaded", t>>
SearchStatus(t) == <<"found", t>>
Image(url, caption) ==
  [imageUrl |-> url, imagePath |-> <<>>, url |-> <<>>, path |-> <<>>,
   caption |-> caption]
SearchResults(t) ==
  << Image(<<"res", t>>, Caption(<<"Class: ", "w", NL, "Sim: ", "w">>)) >>
ExampleList(t) == << Image(<<"ex", t>>, NoCaption) >>
\* exData[0] may be missing
ExamplePayloads(t) == {<<ExampleList(t)>>, <<>>}

\* exData[0] || [] (line 103): exData is <<>> when the answer holds no list.
OrEmpty(exData) == IF exData = <<>> THEN <<>> ELSE exData[1]

\* Files offered by the file picker.
Files == {"f1"}

\* ----------------------------------------------------------------- state
VARIABLES
  dataset, size, isFinetuned,      \* configuration
  status, stats, examples, results, activeQuery,
  isLoading, isExamplesLoading, isSearching,
  clientRef,                       \* clientRef.current: 0 = null, else a handle
  tasks,                           \* the async operations started so far
  connects,                        \* number of Client.connect calls made
  mounted,                         \* the effects of the first render have run
  limit                            \* operations this behaviour may start

config == <<dataset, size, isFinetuned>>
vars == <<dataset, size, isFinetuned, status, stats, examples, results,
          activeQuery, isLoading, isExamplesLoading, isSearching,
          clientRef, tasks, connects, mounted, limit>>

TaskIds == 1..Len(tasks)

Cfg(d, s, f) == [dataset |-> d, size |-> s, finetuned |-> f]

InitWith(n) ==
  /\ limit = n
  /\ dataset = "Cars196"
  /\ size = "b"
  /\ isFinetuned = FALSE
  /\ status = StInitializing
  /\ stats = NoStats
  /\ examples = <<>>
  /\ results = <<>>
  /\ activeQuery = NoQuery
  /\ isLoading = FALSE
  /\ isExamplesLoading = FALSE
  /\ isSearching = FALSE
  /\ clientRef = 0
  /\ tasks = <<>>
  /\ connects = 0
  /\ mounted = FALSE

Init == InitWith(MaxTasks)


\* --------------------------------------------------------- task records
\* pc: "connect" awaiting Client.connect, "load" awaiting /load_resources,
\* "examples" awaiting /refresh_examples_wrapper, "query" awaiting
\* /process_image, "done" settled.
FirstCall(kind) ==
  CASE kind = "load" -> "load"
    [] kind = "search" -> "query"
    [] kind = "refresh" -> "examples"

\* getGradioClient, up to its first await: the stored handle is returned
\* when there is one, otherwise a connection is being established.
HasClient == clientRef # 0

NewTask(kind, cfg, query) ==
  [kind |-> kind,
   pc |-> IF HasClient THEN FirstCall(kind) ELSE "connect",
   cfg |-> cfg,              \* configuration the operation was started under
   query |-> query,          \* preview of the image a search was started for
   client |-> clientRef,     \* the handle getGradioClient returned (0: none yet)
   raw |-> NoRaw,            \* <<data[1]>> once /load_resources has answered
   input |-> NoInput,        \* image_input a search passes to /process_image
   snap |-> IF kind = "load" THEN stats ELSE NoStats]
                             \* metrics held when a load cycle was triggered

NewConnects == IF HasClient THEN 0 ELSE 1

\* A settled operation holds nothing any more; its kind is kept.
Settle(t) ==
  [tasks EXCEPT ![t] = [kind |-> tasks[t].kind, pc |-> "done", cfg |-> NoCfg,
                        query |-> NoQuery, client |-> 0,
                        raw |-> NoRaw, input |-> NoInput, snap |-> NoStats]]

\* ------------------------------------------------------------ triggers
\* loadResources up to its first await (lines 111-116).
StartLoad(d, s, f) ==
  /\ isLoading' = TRUE
  /\ status' = StDownloading
  /\ tasks' = Append(tasks, NewTask("load", Cfg(d, s, f), NoQuery))
  /\ connects' = connects + NewConnects
  /\ UNCHANGED <<stats, examples, results, activeQuery, isExamplesLoading,
                 isSearching, clientRef>>

\* useEffect(() => { loadResources(); }, [dataset, size, isFinetuned]) on mount
Mount ==
  /\ ~mounted
  /\ mounted' = TRUE
  /\ StartLoad(dataset, size, isFinetuned)
  /\ UNCHANGED <<dataset, size, isFinetuned, limit>>

CanStart(n) == mounted /\ Len(tasks) + n <= limit

SetDataset(d) ==
  /\ CanStart(1)
  /\ d # dataset
  /\ dataset' = d
  /\ StartLoad(d, size, isFinetuned)
  /\ UNCHANGED <<size, isFinetuned, mounted, limit>>

SetSize(v) ==
  /\ CanStart(1)
  /\ v # size
  /\ size' = v
  /\ StartLoad(dataset, v, isFinetuned)
  /\ UNCHANGED <<dataset, isFinetuned, mounted, limit>>

SetIsFinetuned ==
  /\ CanStart(1)
  /\ isFinetuned' = ~isFinetuned
  /\ StartLoad(dataset, size, ~isFinetuned)
  /\ UNCHANGED <<dataset, size, mounted, limit>>

\* refreshExamples up to its first await, from the "Get New Examples" button
\* (disabled while isExamplesLoading).
RefreshClick ==
  /\ CanStart(1)
  /\ ~isExamplesLoading
  /\ isExamplesLoading' = TRUE
  /\ tasks' = Append(tasks, NewTask("refresh", Cfg(dataset, size, isFinetuned), NoQuery))
  /\ connects' = connects + NewConnects
  /\ UNCHANGED <<dataset, size, isFinetuned, status, stats, examples, results,
                 activeQuery, isLoading, isSearching, clientRef, mounted, limit>>

\* handleSearch up to its first await (lines 132-145), as a function of the
\* part of the state it writes; S.tasks grows by the new search.
PreviewOf(source, id) ==
  IF source.kind = "blob" THEN <<"blob", id>>      \* URL.createObjectURL
  ELSE getImageUrl(source.item)

\* image_input: the file itself, or handle_file of the URL of the item
InputOf(source) ==
  IF source.kind = "blob" THEN [file |-> source.name, url |-> <<>>]
  ELSE [file |-> "", url |-> getImageUrl(source.item)]

\* handleSearch that shows the preview only once the response is there.
HandleSearchOnLatePreview(S, source) ==
  [tasks |-> Append(S.tasks,
                    [NewTask("search", Cfg(dataset, size, isFinetuned),
                             PreviewOf(source, Len(S.tasks) + 1))
                       EXCEPT !.input = InputOf(source)]),
   connects |-> S.connects + NewConnects,
   isSearching |-> TRUE,
   status |-> StAnalyzing,
   activeQuery |-> S.activeQuery]

HandleSearchOn(S, source) ==
  [tasks |-> Append(S.tasks,
                    [NewTask("search", Cfg(dataset, size, isFinetuned),
                             PreviewOf(source, Len(S.tasks) + 1))
                       EXCEPT !.input = InputOf(source)]),
   connects |-> S.connects + NewConnects,
   isSearching |-> TRUE,
   status |-> StAnalyzing,
   activeQuery |-> PreviewOf(source, Len(S.tasks) + 1)]

SearchPart ==
  [tasks |-> tasks, connects |-> connects,
   isSearching |-> isSearching, status |-> status, activeQuery |-> activeQuery]

ApplySearchPart(S) ==
  /\ tasks' = S.tasks
  /\ connects' = S.connects
  /\ isSearching' = S.isSearching
  /\ status' = S.status
  /\ activeQuery' = S.activeQuery
  /\ UNCHANGED <<dataset, size, isFinetuned, stats, examples, results,
                 isLoading, isExamplesLoading, clientRef, mounted, limit>>

\* onClick of an example image; the grid is rendered when no example
\* refresh is running.
ExampleClick(i) ==
  /\ CanStart(1)
  /\ ~isExamplesLoading
  /\ i \in 1..Len(examples)
  /\ ApplySearchPart(HandleSearchOn(SearchPart, [kind |-> "item", item |-> examples[i]]))

\* onChange of the file input
FileUpload(f) ==
  /\ CanStart(1)
  /\ ApplySearchPart(HandleSearchOn(SearchPart, [kind |-> "blob", name |-> f]))


\* handlePaste: one handleSearch per clipboard item whose type contains
\* "image" and whose getAsFile() yields a file.  An item is
\* [type |-> the MIME type cut into its parts, "image" a part of its own
\* wherever the type contains it, file |-> name or ""].
Contains(type, word) == \E k \in 1..Len(type) : type[k] = word

ItemPng == [type |-> <<"image", "png">>, file |-> "p1"]
ItemJpeg == [type |-> <<"image", "jpeg">>, file |-> "p2"]
ItemText == [type |-> <<"text", "plain">>, file |-> ""]
ItemNoFile == [type |-> <<"image", "png">>, file |-> ""]
\* application/x-apple-diskimage
ItemDmg == [type |-> <<"application", "x", "apple", "disk", "image">>, file |-> "p3"]
\* A paste event: hasItems is FALSE when e.clipboardData?.items is undefined.
Clip(items) == [hasItems |-> TRUE, items |-> items]
NoItems == [hasItems |-> FALSE, items |-> <<>>]
Clipboards == {NoItems, Clip(<<>>), Clip(<<ItemText>>), Clip(<<ItemPng>>),
               Clip(<<ItemText, ItemPng>>), Clip(<<ItemPng, ItemJpeg>>),
               Clip(<<ItemNoFile>>), Clip(<<ItemDmg>>)}

Searched(item) == Contains(item.type, "image") /\ item.file # ""

RECURSIVE PasteFrom(_, _, _)
PasteFrom(S, items, i) ==
  IF i > Len(items) THEN S
  ELSE IF Searched(items[i])
    THEN PasteFrom(HandleSearchOn(S, [kind |-> "blob", name |-> items[i].file]),
                   items, i + 1)
    ELSE PasteFrom(S, items, i + 1)

PasteCount(items) == Cardinality({k \in 1..Len(items) : Searched(items[k])})

Paste(e) ==
  /\ CanStart(PasteCount(e.items))
  /\ IF ~e.hasItems THEN UNCHANGED vars
     ELSE ApplySearchPart(PasteFrom(SearchPart, e.items, 1))

\* --------------------------------------------------------- settlements
\* Client.connect resolves: clientRef.current = client, and the caller goes
\* on to its backend call.
ConnectOK(t) ==
  /\ t \in TaskIds
  /\ tasks[t].pc = "connect"
  /\ clientRef' = t
  /\ tasks' = [tasks EXCEPT ![t].pc = FirstCall(tasks[t].kind), ![t].client = t]
  /\ UNCHANGED <<dataset, size, isFinetuned, status, stats, examples, results,
                 activeQuery, isLoading, isExamplesLoading, isSearching,
                 connects, mounted, limit>>

\* ConnectFail with the rejected attempt kept in clientRef.current, as a
\* manager caching the promise of the attempt would.
ConnectFailCached(t) ==
  /\ t \in TaskIds
  /\ tasks[t].pc = "connect"
  /\ tasks' = Settle(t)
  /\ clientRef' = IF clientRef = 0 THEN t ELSE clientRef
  /\ status' = CASE tasks[t].kind = "load" -> StSyncFailed
                 [] tasks[t].kind = "search" -> StSearchFailed
                 [] tasks[t].kind = "refresh" -> status
  /\ isLoading' = IF tasks[t].kind = "load" THEN FALSE ELSE isLoading
  /\ isSearching' = IF tasks[t].kind = "search" THEN FALSE ELSE isSearching
  /\ isExamplesLoading' = IF tasks[t].kind = "refresh" THEN FALSE
                          ELSE isExamplesLoading
  /\ UNCHANGED <<dataset, size, isFinetuned, stats, examples, results,
                 activeQuery, connects, mounted, limit>>

\* Client.connect rejects: the caller's catch and finally run.
ConnectFail(t) ==
  /\ t \in TaskIds
  /\ tasks[t].pc = "connect"
  /\ tasks' = Settle(t)
  /\ status' = CASE tasks[t].kind = "load" -> StSyncFailed
                 [] tasks[t].kind = "search" -> StSearchFailed
                 [] tasks[t].kind = "refresh" -> status
  /\ isLoading' = IF tasks[t].kind = "load" THEN FALSE ELSE isLoading
  /\ isSearching' = IF tasks[t].kind = "search" THEN FALSE ELSE isSearching
  /\ isExamplesLoading' = IF tasks[t].kind = "refresh" THEN FALSE
                          ELSE isExamplesLoading
  /\ UNCHANGED <<dataset, size, isFinetuned, stats, examples, results,
                 activeQuery, clientRef, connects, mounted, limit>>

\* loadResources that clears isLoading as soon as /load_resources answers,
\* before the examples are fetched.
LoadOKEarlyReady(t, raw) ==
  /\ t \in TaskIds
  /\ tasks[t].pc = "load"
  /\ status' = LoadStatus(t)
  /\ stats' = parseStats(raw)
  /\ isExamplesLoading' = TRUE
  /\ isLoading' = FALSE
  /\ tasks' = [tasks EXCEPT ![t].pc = "examples", ![t].raw = <<raw>>]
  /\ UNCHANGED <<dataset, size, isFinetuned, examples, results, activeQuery,
                 isSearching, clientRef, connects, mounted, limit>>

\* /load_resources resolves (lines 119-124): status and stats are set, then
\* refreshExamples runs up to its call of /refresh_examples_wrapper.
LoadOK(t, raw) ==
  /\ t \in TaskIds
  /\ tasks[t].pc = "load"
  /\ status' = LoadStatus(t)
  /\ stats' = parseStats(raw)
  /\ isExamplesLoading' = TRUE
  /\ tasks' = [tasks EXCEPT ![t].pc = "examples", ![t].raw = <<raw>>]
  /\ UNCHANGED <<dataset, size, isFinetuned, examples, results, activeQuery,
                 isLoading, isSearching, clientRef, connects, mounted, limit>>

\* loadResources that calls /load_resources again when the call rejects.
LoadFailRetry(t) ==
  /\ t \in TaskIds
  /\ tasks[t].pc = "load"
  /\ status' = StSyncFailed
  /\ UNCHANGED <<dataset, size, isFinetuned, stats, examples, results,
                 activeQuery, isLoading, isExamplesLoading, isSearching,
                 clientRef, tasks, connects, mounted, limit>>

\* /load_resources rejects (lines 125-129).
LoadFail(t) ==
  /\ t \in TaskIds
  /\ tasks[t].pc = "load"
  /\ status' = StSyncFailed
  /\ isLoading' = FALSE
  /\ tasks' = Settle(t)
  /\ UNCHANGED <<dataset, size, isFinetuned, stats, examples, results,
                 activeQuery, isExamplesLoading, isSearching, clientRef,
                 connects, mounted, limit>>

\* refreshExamples that adds the returned list to the list shown.
ExamplesOKMerge(t, exData) ==
  /\ t \in TaskIds
  /\ tasks[t].pc = "examples"
  /\ examples' = examples \o OrEmpty(exData)
  /\ isExamplesLoading' = FALSE
  /\ isLoading' = IF tasks[t].kind = "load" THEN FALSE ELSE isLoading
  /\ tasks' = Settle(t)
  /\ UNCHANGED <<dataset, size, isFinetuned, status, stats, results,
                 activeQuery, isSearching, clientRef, connects, mounted, limit>>

\* refreshExamples that keeps a list already shown: the first refresh to
\* complete wins.
ExamplesOKFirstOnly(t, exData) ==
  /\ t \in TaskIds
  /\ tasks[t].pc = "examples"
  /\ examples' = IF examples # <<>> THEN examples ELSE OrEmpty(exData)
  /\ isExamplesLoading' = FALSE
  /\ isLoading' = IF tasks[t].kind = "load" THEN FALSE ELSE isLoading
  /\ tasks' = Settle(t)
  /\ UNCHANGED <<dataset, size, isFinetuned, status, stats, results,
                 activeQuery, isSearching, clientRef, connects, mounted, limit>>

\* /refresh_examples_wrapper resolves (lines 102-108); inside a load cycle
\* loadResources then reaches its finally.
ExamplesOK(t, exData) ==
  /\ t \in TaskIds
  /\ tasks[t].pc = "examples"
  /\ examples' = OrEmpty(exData)
  /\ isExamplesLoading' = FALSE
  /\ isLoading' = IF tasks[t].kind = "load" THEN FALSE ELSE isLoading
  /\ tasks' = Settle(t)
  /\ UNCHANGED <<dataset, size, isFinetuned, status, stats, results,
                 activeQuery, isSearching, clientRef, connects, mounted, limit>>

\* /refresh_examples_wrapper rejects: refreshExamples logs the error and
\* returns normally.
ExamplesFail(t) ==
  /\ t \in TaskIds
  /\ tasks[t].pc = "examples"
  /\ isExamplesLoading' = FALSE
  /\ isLoading' = IF tasks[t].kind = "load" THEN FALSE ELSE isLoading
  /\ tasks' = Settle(t)
  /\ UNCHANGED <<dataset, size, isFinetuned, status, stats, examples, results,
                 activeQuery, isSearching, clientRef, connects, mounted, limit>>

\* /process_image resolves (lines 155-157, 162).
SearchOKWith(t, items, text) ==
  /\ t \in TaskIds
  /\ tasks[t].pc = "query"
  /\ results' = items
  /\ status' = text
  /\ isSearching' = FALSE
  /\ tasks' = Settle(t)
  /\ UNCHANGED <<dataset, size, isFinetuned, stats, examples, activeQuery,
                 isLoading, isExamplesLoading, clientRef, connects, mounted, limit>>

SearchOK(t) == SearchOKWith(t, SearchResults(t), SearchStatus(t))

\* handleSearch whose finally block clears every busy flag.
SearchFailClearsLoading(t) ==
  /\ t \in TaskIds
  /\ tasks[t].pc = "query"
  /\ status' = StSearchFailed
  /\ isSearching' = FALSE
  /\ isLoading' = FALSE
  /\ tasks' = Settle(t)
  /\ UNCHANGED <<dataset, size, isFinetuned, stats, examples, results,
                 activeQuery, isExamplesLoading, clientRef,
                 connects, mounted, limit>>

\* SearchFail without the finally block of handleSearch.
SearchFailNoFinally(t) ==
  /\ t \in TaskIds
  /\ tasks[t].pc = "query"
  /\ status' = StSearchFailed
  /\ tasks' = Settle(t)
  /\ UNCHANGED <<dataset, size, isFinetuned, stats, examples, results,
                 activeQuery, isLoading, isExamplesLoading, isSearching,
                 clientRef, connects, mounted, limit>>

\* /process_image rejects (lines 158-162).
SearchFail(t) ==
  /\ t \in TaskIds
  /\ tasks[t].pc = "query"
  /\ status' = StSearchFailed
  /\ isSearching' = FALSE
  /\ tasks' = Settle(t)
  /\ UNCHANGED <<dataset, size, isFinetuned, stats, examples, results,
                 activeQuery, isLoading, isExamplesLoading, clientRef,
                 connects, mounted, limit>>

\* ------------------------------------------------------- specification
Trigger ==
  \/ Mount
  \/ \E d \in Datasets : SetDataset(d)
  \/ \E v \in Sizes : SetSize(v)
  \/ SetIsFinetuned
  \/ RefreshClick
  \/ \E i \in 1..Len(examples) : ExampleClick(i)
  \/ \E f \in Files : FileUpload(f)
  \/ \E e \in Clipboards : Paste(e)

Settlement ==
  \/ \E t \in TaskIds : ConnectOK(t)
  \/ \E t \in TaskIds : ConnectFail(t)
  \/ \E t \in TaskIds : \E raw \in RawPayloads(t) : LoadOK(t, raw)
  \/ \E t \in TaskIds : LoadFail(t)
  \/ \E t \in TaskIds : \E exData \in ExamplePayloads(t) : ExamplesOK(t, exData)
  \/ \E t \in TaskIds : ExamplesFail(t)
  \/ \E t \in TaskIds : SearchOK(t)
  \/ \E t \in TaskIds : SearchFail(t)

Next == Trigger \/ Settlement

Spec == Init /\ [][Next]_vars

\* Every awaited backend call eventually settles.
LiveSpec == Spec /\ WF_vars(Settlement)

\* The same program with room for one more operation.
WideInit == InitWith(MaxWideTasks)
WideSpec == WideInit /\ [][Next]_vars


\* ------------------------------------------------------------ properties
AllSettled == \A t \in TaskIds : tasks[t].pc = "done"
Idle == ~isLoading /\ ~isExamplesLoading /\ ~isSearching
Newer(t, kind) == \E u \in TaskIds : u > t /\ tasks[u].kind = kind
CurrentCfg == Cfg(dataset, size, isFinetuned)
ConnectsInFlight == {t \in TaskIds : tasks[t].pc = "connect"}
LoadCycleFails(t) ==
  tasks[t].kind = "load" /\ (ConnectFail(t) \/ LoadFail(t) \/ ExamplesFail(t))
RefreshFails(t) ==
  tasks[t].kind = "refresh" /\ (ConnectFail(t) \/ ExamplesFail(t))
SearchFails(t) ==
  tasks[t].kind = "search" /\ (ConnectFail(t) \/ SearchFail(t))

\* C1: once a newer search B has been triggered, the response of an older
\* search A is written neither to results nor to status, so that the results
\* displayed after both settled are B's.
C1_StaleSearchDiscarded ==
  [][\A a \in TaskIds :
       (tasks[a].kind = "search" /\ Newer(a, "search"))
         => /\ (results' = SearchResults(a) => results = SearchResults(a))
            /\ (status' = SearchStatus(a) => status = SearchStatus(a))]_vars

\* C2: once the configuration has changed and a newer load cycle runs, the
\* response of the superseded load is written neither to metrics nor to
\* status, whichever of the two loads settles first.
C2_StaleLoadDiscarded ==
  [][\A a \in TaskIds :
       (tasks[a].kind = "load" /\ Newer(a, "load")
          /\ \E raw \in RawPayloads(a) : LoadOK(a, raw))
         => stats' = stats /\ status' = status]_vars

\* C3: at most one connection establishment is in flight at any time, and
\* every caller holds the one stored handle.
C3_SingleConnection ==
  /\ Cardinality(ConnectsInFlight) <= 1
  /\ \A t \in TaskIds : tasks[t].client \in {0, clientRef}

\* C4: the response of a search started under a configuration that is no
\* longer current is not applied to results or status.
C4_OldConfigSearchDiscarded ==
  [][\A s \in TaskIds :
       (tasks[s].kind = "search" /\ tasks[s].pc = "query"
          /\ tasks[s].cfg # CurrentCfg)
         => results' # SearchResults(s) /\ status' # SearchStatus(s)]_vars

\* C5: a change of a configuration field leaves no metrics, examples,
\* results or query preview held, and starts exactly one load cycle for the
\* new configuration.
C5_ChangeInvalidates ==
  [][config' # config
       => /\ stats' = NoStats
          /\ examples' = <<>>
          /\ results' = <<>>
          /\ activeQuery' = NoQuery
          /\ Len(tasks') = Len(tasks) + 1
          /\ tasks'[Len(tasks')].kind = "load"
          /\ tasks'[Len(tasks')].cfg = Cfg(dataset', size', isFinetuned')]_vars

\* C6: when every backend call eventually settles, a raised loading or
\* searching flag is always followed by a state in which loadingResources,
\* loadingExamples and searching are all false.
C6_FlagsEventuallyClear == (~Idle) ~> Idle

C6_Witness ==
  /\ Len(tasks) = 2
  /\ AllSettled
  /\ status = StSearchFailed
  /\ stats # NoStats
  /\ Idle

\* C7: a failing search leaves results, metrics and examples as they are; a
\* failing load cycle leaves results and examples as they are and metrics as
\* they were when the cycle was triggered; a failing refresh leaves examples
\* as they are.
C7_FailureKeepsData ==
  [][\A t \in TaskIds :
       /\ SearchFails(t) => UNCHANGED <<results, stats, examples>>
       /\ LoadCycleFails(t)
            => /\ UNCHANGED <<results, stats, examples>>
               /\ tasks[t].raw # NoRaw /\ stats' = parseStats(tasks[t].raw[1])
                    => stats' = tasks[t].snap
       /\ RefreshFails(t) => examples' = examples]_vars

\* C8: the failure of a load cycle, a search or an example refresh sets
\* status to a fixed failure string and clears the flag of that operation.
C8_FailureSetsStatus ==
  [][\A t \in TaskIds :
       /\ LoadCycleFails(t) => status' = StSyncFailed /\ ~isLoading'
       /\ SearchFails(t) => status' = StSearchFailed /\ ~isSearching'
       /\ (RefreshFails(t) \/ (tasks[t].kind = "load" /\ ExamplesFail(t)))
            => status' \in {StSyncFailed, StSearchFailed} /\ ~isExamplesLoading']_vars

\* C9: when the load cycle started by a configuration change fails,
\* loadingResources is false, status is the failure message and metrics are
\* absent.
C9_FailedLoadLeavesNoMetrics ==
  [][\A t \in TaskIds :
       (t > 1 /\ LoadCycleFails(t))
         => ~isLoading' /\ status' = StSyncFailed /\ stats' = NoStats]_vars

\* C10: a failed connection attempt reaches its caller and leaves the stored
\* handle as it was; a call made while no handle is stored starts an attempt
\* of its own, and a call made while one is stored starts none.
C10_FailedConnectNotCached ==
  [][/\ \A t \in TaskIds :
          (tasks[t].pc = "connect" /\ tasks'[t].pc = "done")
            => /\ clientRef' = clientRef
               /\ tasks[t].kind = "load" => status' = StSyncFailed /\ ~isLoading'
               /\ tasks[t].kind = "search" => status' = StSearchFailed /\ ~isSearching'
               /\ tasks[t].kind = "refresh" => ~isExamplesLoading'
     /\ connects' - connects =
          IF clientRef = 0 THEN Len(tasks') - Len(tasks) ELSE 0
     /\ \A t \in DOMAIN tasks' \ TaskIds :
          tasks'[t].pc = IF clientRef = 0 THEN "connect"
                         ELSE FirstCall(tasks'[t].kind)]_vars

\* The first attempt failed, nothing is stored, and the next call is making
\* an attempt of its own.
C10_Witness ==
  /\ Len(tasks) = 2
  /\ tasks[1].pc = "done"
  /\ clientRef = 0
  /\ tasks[2].pc = "connect"
  /\ connects = 2


NewTasks == DOMAIN tasks' \ TaskIds
SearchesOf(tk) == {t \in DOMAIN tk : tk[t].kind = "search"}

C13_LastCompletedRefreshWins ==
  [][IF \E t \in TaskIds : \E exData \in ExamplePayloads(t) : ExamplesOK(t, exData)
       THEN \E t \in TaskIds : \E exData \in ExamplePayloads(t) :
              /\ ExamplesOK(t, exData)
              /\ examples' = IF exData = <<>> THEN <<>> ELSE exData[1]
       ELSE examples' = examples]_vars

\* The refresh of the load cycle and an explicit refresh overlapped (the
\* explicit one is still in flight although loadingExamples was cleared), and
\* the examples are the list of the one that has completed.
C13_Witness ==
  /\ Len(tasks) = 2
  /\ tasks[1].kind = "load"
  /\ tasks[1].pc = "done"
  /\ tasks[2].kind = "refresh"
  /\ tasks[2].pc = "examples"
  /\ ~isExamplesLoading
  /\ examples = ExampleList(1)

\* ------------------------------------------------------ the decoders
\* The load of the first render has its connection and awaits
\* /load_resources.
MetricsInit ==
  /\ limit = MaxTasks
  /\ dataset = "Cars196"
  /\ size = "b"
  /\ isFinetuned = FALSE
  /\ status = StDownloading
  /\ stats = NoStats
  /\ examples = <<>>
  /\ results = <<>>
  /\ activeQuery = NoQuery
  /\ isLoading = TRUE
  /\ isExamplesLoading = FALSE
  /\ isSearching = FALSE
  /\ clientRef = 1
  /\ tasks = <<[NewTask("load", Cfg("Cars196", "b", FALSE), NoQuery)
                  EXCEPT !.pc = "load", !.client = 1]>>
  /\ connects = 1
  /\ mounted = TRUE

RECURSIVE LinesOf(_, _)
\* The lines of the fields of F in the order of ids, line i carrying the
\* number i.
LinesOf(F, ids) ==
  IF ids = <<>> THEN <<>>
  ELSE (IF Head(ids) \in F THEN << <<Fields[Head(ids)], Head(ids)>> >> ELSE <<>>)
         \o LinesOf(F, Tail(ids))

Ascending == [i \in FieldIds |-> i]
Descending == [i \in FieldIds |-> Len(Fields) + 1 - i]

\* Every subset of the eight labelled lines, in two orders; the empty text
\* is among them.
MetricsTexts ==
  {Text(LinesOf(F, ids)) : F \in SUBSET FieldIds, ids \in {Ascending, Descending}}

\* /load_resources answers with any of the texts.
MetricsNext == \E raw \in MetricsTexts : LoadOK(1, raw)

MetricsSpec == MetricsInit /\ [][MetricsNext]_vars

StatField(s, i) ==
  CASE i = 1 -> s.precision
    [] i = 2 -> s.mapR
    [] i = 3 -> s.r1
    [] i = 4 -> s.r5
    [] i = 5 -> s.r10
    [] i = 6 -> s.r100
    [] i = 7 -> s.embeddings[2]
    [] i = 8 -> s.dim

\* C14: for every text, the decoded metrics are present, every field whose
\* line is in the text has the number of its own line, and every field whose
\* line is missing is 0 (the embedding count the digits of 0), whatever other
\* lines the text holds; the empty text gives all zeros.
C14_FieldsDecodedIndependently ==
  tasks[1].raw # NoRaw =>
    LET lines == tasks[1].raw[1].lines IN
      /\ stats # NoStats
      /\ stats.embeddings[1] = "digits"
      /\ \A i \in FieldIds :
           IF \E k \in DOMAIN lines : lines[k][1] = Fields[i]
             THEN \E k \in DOMAIN lines :
                    lines[k][1] = Fields[i] /\ StatField(stats, i) = lines[k][2]
             ELSE StatField(stats, i) = 0

\* A text holding R@10 and R@100 but not R@1 has been decoded: r1 is 0.
C14_Witness ==
  /\ tasks[1].raw # NoRaw
  /\ tasks[1].raw[1].lines = << <<"R@10", 5>>, <<"R@100", 6>> >>
  /\ stats.r1 = 0
  /\ stats.r10 = 5
  /\ stats.r100 = 6

\* A file was uploaded after the connection of the first load: its search
\* awaits /process_image.
CaptionInit ==
  /\ limit = MaxTasks
  /\ dataset = "Cars196"
  /\ size = "b"
  /\ isFinetuned = FALSE
  /\ status = StAnalyzing
  /\ stats = NoStats
  /\ examples = <<>>
  /\ results = <<>>
  /\ activeQuery = <<"blob", 2>>
  /\ isLoading = TRUE
  /\ isExamplesLoading = FALSE
  /\ isSearching = TRUE
  /\ clientRef = 1
  /\ tasks = <<[NewTask("load", Cfg("Cars196", "b", FALSE), NoQuery)
                  EXCEPT !.pc = "load", !.client = 1],
               [NewTask("search", Cfg("Cars196", "b", FALSE), <<"blob", 2>>)
                  EXCEPT !.pc = "query", !.client = 1,
                         !.input = [file |-> "f1", url |-> <<>>]]>>
  /\ connects = 1
  /\ mounted = TRUE

\* Number of tokens in one segment of a caption.
MaxSegment == 3
Tokens == {"Class: ", "Label: ", "Sim: ", "w"}
Segments == UNION {[1..n -> Tokens] : n \in 0..MaxSegment}

\* The missing caption, every text of one segment and every text of two.
Captions ==
  {NoCaption} \cup {Caption(a) : a \in Segments}
              \cup {Caption(a \o <<NL>> \o b) : a \in Segments, b \in Segments}

\* /process_image answers with one image carrying any of the captions.
CaptionNext ==
  \E c \in Captions : SearchOKWith(2, <<Image(<<"res", 2>>, c)>>, SearchStatus(2))

CaptionSpec == CaptionInit /\ [][CaptionNext]_vars

\* text with tok removed when text starts with it
StripPrefix(text, tok) ==
  IF text # <<>> /\ Head(text) = tok THEN Tail(text) ELSE text

\* C15: the card of every result whose caption is missing or has one or two
\* segments shows as label segment 1 without its prefix "Class: " or
\* "Label: " and as similarity segment 2 without its prefix "Sim: ", with
\* "Unknown" and "0.000" for a segment that is missing or left empty.
C15_CaptionDecodedByPrefix ==
  \A i \in DOMAIN results :
    LET c == results[i].caption
        parts == Split(c.toks)
        label == IF ~c.defined THEN <<>>
                 ELSE IF parts[1] # <<>> /\ Head(parts[1]) = "Class: "
                   THEN Tail(parts[1])
                 ELSE StripPrefix(parts[1], "Label: ")
        sim == IF ~c.defined \/ Len(parts) < 2 THEN <<>>
               ELSE StripPrefix(parts[2], "Sim: ")
    IN Len(parts) <= 2 =>
         parseCaption(c) =
           [className |-> IF label = <<>> THEN <<"Unknown">> ELSE label,
            sim |-> IF sim = <<>> THEN <<"0.000">> ELSE sim]

\* The position of an operation: the connection, its first backend call,
\* the examples call, settled.
PcRank(pc) ==
  CASE pc = "connect" -> 0
    [] pc \in {"load", "query"} -> 1
    [] pc = "examples" -> 2
    [] pc = "done" -> 3

AnyFails(t) == ConnectFail(t) \/ LoadFail(t) \/ ExamplesFail(t) \/ SearchFail(t)

\* C16: an operation only moves forward, so that it awaits the connection
\* and each of its backend calls at most once; connection attempts are made
\* by triggers only, at most one for each operation triggered; and a failure
\* settles its operation and starts or moves no other one.
C16_NoAutomaticRetry ==
  [][/\ \A t \in TaskIds :
          tasks'[t].pc # tasks[t].pc => PcRank(tasks'[t].pc) > PcRank(tasks[t].pc)
     /\ connects' - connects \in 0..(Len(tasks') - Len(tasks))
     /\ \A t \in TaskIds :
          AnyFails(t) => /\ tasks'[t].pc = "done"
                         /\ Len(tasks') = Len(tasks)
                         /\ \A u \in TaskIds \ {t} : tasks'[u] = tasks[u]]_vars

\* The load of the first render failed at /load_resources after its one
\* connection attempt, and nothing is in flight.
C16_Witness ==
  /\ Len(tasks) = 1
  /\ tasks[1].pc = "done"
  /\ status = StSyncFailed
  /\ clientRef = 1
  /\ connects = 1
  /\ ~isLoading

LoadsOf(tk) == {t \in DOMAIN tk : tk[t].kind = "load"}
Latest(S, t) == t \in S /\ \A u \in S : u <= t

\* C17: whenever a step writes results or metrics and leaves a state with
\* results shown and no search in flight, the results written are the
\* response to the query shown in activeQueryPreview (that of the search
\* triggered last) and the metrics written are decoded from the response of
\* the load issued for the current configuration (the load issued last):
\* what is shown never belongs to a superseded query or configuration.
C17_DisplayedDataCurrent ==
  [][(results' # <<>> /\ \A t \in SearchesOf(tasks') : tasks'[t].pc = "done")
       => /\ results' # results
               => \E t \in TaskIds :
                    /\ Latest(SearchesOf(tasks), t)
                    /\ results' = SearchResults(t)
                    /\ activeQuery' = tasks[t].query
          /\ stats' # stats
               => \E t \in TaskIds :
                    /\ Latest(LoadsOf(tasks), t)
                    /\ tasks[t].cfg = CurrentCfg
                    /\ \E raw \in RawPayloads(t) : stats' = parseStats(raw)]_vars

AllZero ==
  [precision |-> 0, mapR |-> 0, r1 |-> 0, r5 |-> 0, r10 |-> 0, r100 |-> 0,
   embeddings |-> <<"digits", 0>>, dim |-> 0]

\* C18 as stated: metrics are absent exactly until the first response of a
\* configuration load that carries a raw metrics payload is accepted, and
\* present from then on; a payload without any labelled field gives present
\* metrics that are all zero.
C18_MetricsAbsentUntilPayload ==
  [][/\ stats # NoStats => stats' # NoStats
     /\ (stats = NoStats /\ stats' # NoStats)
          => \E t \in TaskIds : \E raw \in RawPayloads(t) :
               LoadOK(t, raw) /\ raw.defined
     /\ \A t \in TaskIds : \A raw \in RawPayloads(t) :
          (LoadOK(t, raw) /\ raw.defined)
            => stats' # NoStats /\ (raw = EmptyRaw => stats' = AllZero)]_vars

\* C18 as amended: metrics are absent at the start, only an accepted
\* response of a configuration load changes them, and after each accepted
\* response they are present exactly if that response carried a raw metrics
\* payload (absent again after a response without one); a payload without
\* any labelled field gives present metrics that are all zero.
C18_MetricsPresentIffPayload ==
  /\ stats = NoStats
  /\ [][IF \E t \in TaskIds : \E raw \in RawPayloads(t) : LoadOK(t, raw)
          THEN \A t \in TaskIds : \A raw \in RawPayloads(t) :
                 (LoadOK(t, raw) /\ tasks'[t].raw = <<raw>>)
                   => /\ stats' = NoStats <=> ~raw.defined
                      /\ raw = EmptyRaw => stats' = AllZero
          ELSE stats' = stats]_vars

\* The first load was answered with a payload, then the load of a changed
\* configuration without one: the metrics are absent again.
C18_Witness ==
  /\ Len(tasks) = 2
  /\ tasks[1].raw = <<FullRaw(1)>>
  /\ tasks[2].raw = <<Undefined>>
  /\ stats = NoStats

\* An item of a MIME type image/... whose getAsFile() yields a file.
IsImageFile(item) == item.type[1] = "image" /\ item.file # ""

\* C19: a paste starts one search for each clipboard item of an image MIME
\* type that yields a file, in the order of the items and with the file of
\* the item as input, and none for any other item; a paste with no such item
\* or with no clipboard data leaves the whole state unchanged.
C19_PasteSearchesImageItems ==
  [][\A e \in Clipboards :
       Paste(e) =>
         LET want == SelectSeq(e.items, IsImageFile) IN
           /\ Len(tasks') = Len(tasks) + Len(want)
           /\ \A k \in 1..Len(want) :
                /\ tasks'[Len(tasks) + k].kind = "search"
                /\ tasks'[Len(tasks) + k].input.file = want[k].file
           /\ Len(want) = 0 => UNCHANGED vars]_vars

\* C20: in every state in which a triggered search has not settled yet,
\* searching is true: a search that settles does not clear searching while
\* another search is in flight.
C20_SearchingWhileAnyInFlight ==
  (\E t \in SearchesOf(tasks) : tasks[t].pc # "done") => isSearching

Ready == LoadsOf(tasks) # {} /\ \A t \in LoadsOf(tasks) : tasks[t].pc = "done"

\* C22: every step that starts a search, by an example click, a file upload
\* or a paste, is taken in Ready: no resource load is in flight and the first
\* load cycle has completed.
C22_SearchOnlyFromReady ==
  [][NewTasks \cap SearchesOf(tasks') # {} => Ready]_vars

\* C23: in every state in which a load cycle has not settled yet,
\* loadingResources is true: a load cycle that settles does not clear the
\* flag while the cycle of a later configuration change is in flight.
C23_LoadingWhileAnyInFlight ==
  (\E t \in LoadsOf(tasks) : tasks[t].pc # "done") => isLoading

\* The operations of a kind that take part in a step: those it starts and
\* the one it moves.
Stepping(kind) ==
  {t \in DOMAIN tasks' :
     tasks'[t].kind = kind /\ (t \in TaskIds => tasks'[t] # tasks[t])}

SearchFrame == UNCHANGED <<stats, examples, isLoading, isExamplesLoading>>
LoadFrame == UNCHANGED <<results, activeQuery, isSearching>>

\* The texts operation t writes to status.
TextsOf(t) ==
  IF tasks[t].kind = "search"
    THEN {StAnalyzing, SearchStatus(t), StSearchFailed}
    ELSE {StDownloading, LoadStatus(t), StSyncFailed}

====
